---- MODULE Spec2Model ----
(***************************************************************************)
(* Model of the blog backend of src/server.js: the Express handlers for    *)
(* register, login and the post CRUD routes, the JWT auth middleware, the  *)
(* multer disk storage, and the parts of the Mongoose/MongoDB store the    *)
(* handlers rely on (unique indexes, findById, save, findByIdAndDelete).   *)
(*                                                                         *)
(* Every `await` of a handler that separates a read of the store from a    *)
(* later write is a point where other requests interleave; such handlers   *)
(* are two actions (the part up to the read, the write and the response).  *)
(* A request between its two steps sits in a slot of `inflight`; `resp` is *)
(* the response the last step sent (with the request it answers), or Idle  *)
(* when that step sent none.                                               *)
(***************************************************************************)
EXTENDS Integers, Sequences, FiniteSets, TLC

\* ---------------------------------------------------------------- bounds
MaxPosts  == 2   \* posts ever created
MaxClock  == 3   \* last clock reading
MaxTokens == 2   \* tokens handed out by Login that clients keep
MaxFramePosts == 1  \* posts ever created under SpecFrame

\* ------------------------------------------------------ program constants
TokenTTL == 2    \* expiresIn: "24h"; one clock tick is 12 h

\* ---------------------------------------------------------------- inputs
Slots      == {"r1", "r2"}            \* requests that may be between two awaits
Usernames  == {"alice", "bob"}
Emails     == {"a@x.com", "b@x.com"}
Undefined  == "<undefined>"           \* a field missing from the request body
RegisterPasswords == {"pw1", Undefined}
LoginPasswords    == {"pw1", "", Undefined}
CreateTitles      == {"t1", ""}
CreateContents    == {"c1", Undefined}
UpdateTitles      == {"t2", "", Undefined}
UpdateContents    == {"c2", "", Undefined}
NoFile     == ""                      \* req.file is undefined
FileInputs == {NoFile, ".png"}        \* path.extname(file.originalname)

\* ------------------------------------------------------------- data model
NoImage == <<>>                       \* image: null
NoUser  == [userId |-> <<>>, username |-> ""]
NoDoc   == [id |-> 0, title |-> "", content |-> "", image |-> NoImage,
            author |-> 0, authorName |-> ""]

\* ObjectId.toString() / the JSON form of an ObjectId inside a JWT payload,
\* and the cast of such a string back to an ObjectId by the schema.
IdStr(n)   == <<"oid", n>>
ParseId(s) == s[2]

\* bcrypt.hash(password, 10) and bcrypt.compare(s, hash) of bcryptjs: both
\* reject with "Illegal arguments" when the password is not a string.
IsString(x) == x # Undefined
Hash(pw)    == <<"$2a$10$", pw>>
Compare(s, hash) == hash = Hash(s)

\* jwt.sign / jwt.verify with the server's secret: the signature is a
\* function of the payload that only the server can compute.
Sign(userId, username, exp) == <<"HS256", userId, username, exp>>
SignedToken(u, t) ==
    [userId |-> IdStr(u.id), username |-> u.username, exp |-> t + TokenTTL,
     sig |-> Sign(IdStr(u.id), u.username, t + TokenTTL)]

\* (variant: the signature alone, exp ignored)
VerifyNoExpiry(tok, t) == tok.sig = Sign(tok.userId, tok.username, tok.exp)
Verify(tok, t) ==
    /\ tok.sig = Sign(tok.userId, tok.username, tok.exp)
    /\ t < tok.exp

\* authenticateToken: the token is the second word of the Authorization
\* header; 401 without one, 403 when jwt.verify fails, else req.user.
Authenticate(hdr, t) ==
    IF Len(hdr) < 2 THEN [status |-> 401, user |-> NoUser]
    ELSE IF ~Verify(hdr[2], t) THEN [status |-> 403, user |-> NoUser]
    ELSE [status |-> 0,
          user |-> [userId |-> hdr[2].userId, username |-> hdr[2].username]]

AuthMessage(status) ==
    IF status = 401 THEN "Access token required" ELSE "Invalid token"

VARIABLES users, posts, uploads, tokens, now, nextUserId, nextPostId,
          inflight, resp

vars == <<users, posts, uploads, tokens, now, nextUserId, nextPostId,
          inflight, resp>>

BaseReq ==
    [op |-> "", hdr |-> <<>>, user |-> NoUser, pid |-> 0,
     title |-> Undefined, content |-> Undefined, file |-> NoFile,
     username |-> "", email |-> "", password |-> Undefined,
     snap |-> NoDoc, doc |-> NoDoc, status |-> 0, msg |-> "", list |-> <<>>]

Idle == BaseReq

Reply(r, status, msg) == [r EXCEPT !.status = status, !.msg = msg]

PostIds == {p.id : p \in posts}
PostById(id) == CHOOSE p \in posts : p.id = id

Init ==
    /\ users = {}
    /\ posts = {}
    /\ uploads = {}
    /\ tokens = {}
    /\ now = 0
    /\ nextUserId = 1
    /\ nextPostId = 1
    /\ inflight = [s \in Slots |-> Idle]
    /\ resp = Idle

Tick ==
    /\ now < MaxClock
    /\ now' = now + 1
    /\ resp' = Idle
    /\ UNCHANGED <<users, posts, uploads, tokens, nextUserId, nextPostId,
                   inflight>>

\* ------------------------------------------------------------ User Service
\* User.findOne({ $or: [{ email }, { username }] })
ExistingUser(U, username, email) ==
    \E u \in U : u.email = email \/ u.username = username

\* The unique indexes of userSchema (username, email), checked by the
\* store when a document is inserted.
\* (variant: a collection without the indexes)
NoUniqueIndex(U, username, email) == TRUE
UniqueIndexOk(U, username, email) ==
    /\ \A u \in U : u.username # username
    /\ \A u \in U : u.email # email

\* POST /api/register up to `await bcrypt.hash`: the pre-check and the hash.
RegisterFind(s, Pw) ==
    /\ inflight[s] = Idle
    /\ \E un \in Usernames, em \in Emails, pw \in Pw :
         LET r == [BaseReq EXCEPT !.op = "Register", !.username = un,
                                  !.email = em, !.password = pw]
         IN IF ExistingUser(users, un, em)
            THEN /\ resp' = Reply(r, 400, "User already exists")
                 /\ UNCHANGED inflight
            ELSE IF ~IsString(pw)
            THEN /\ resp' = Reply(r, 500, "Server error")
                 /\ UNCHANGED inflight
            ELSE /\ inflight' = [inflight EXCEPT ![s] = r]
                 /\ resp' = Idle
    /\ UNCHANGED <<users, posts, uploads, tokens, now, nextUserId, nextPostId>>

\* POST /api/register from `await user.save()` on: the insert, which the
\* unique indexes may refuse (E11000, caught and answered 500).
RegisterSave(s) ==
    /\ inflight[s].op = "Register"
    /\ LET r == inflight[s]
       IN IF UniqueIndexOk(users, r.username, r.email)
          THEN /\ users' = users \cup
                     {[id |-> nextUserId, username |-> r.username,
                       email |-> r.email, password |-> Hash(r.password)]}
               /\ nextUserId' = nextUserId + 1
               /\ resp' = Reply(r, 201, "User created successfully")
          ELSE /\ resp' = Reply(r, 500, "Server error")
               /\ UNCHANGED <<users, nextUserId>>
    /\ inflight' = [inflight EXCEPT ![s] = Idle]
    /\ UNCHANGED <<posts, uploads, tokens, now, nextPostId>>

\* POST /api/login. The users are never written after their insert, so the
\* lookup, the comparison and the signing are one step.
Login(Pw) ==
    /\ \E em \in Emails, pw \in Pw :
         LET r == [BaseReq EXCEPT !.op = "Login", !.email = em, !.password = pw]
             found == {u \in users : u.email = em}
         IN IF found = {}
            THEN /\ resp' = Reply(r, 400, "Invalid credentials")
                 /\ UNCHANGED tokens
            ELSE LET u == CHOOSE x \in found : TRUE
                 IN IF ~IsString(pw)
                    THEN /\ resp' = Reply(r, 500, "Server error")
                         /\ UNCHANGED tokens
                    ELSE IF ~Compare(pw, u.password)
                    THEN /\ resp' = Reply(r, 400, "Invalid credentials")
                         /\ UNCHANGED tokens
                    ELSE LET tok == SignedToken(u, now)
                         IN /\ resp' = [Reply(r, 200, "") EXCEPT
                                          !.user = [userId |-> tok.userId,
                                                    username |-> tok.username]]
                            /\ tokens' = IF Cardinality(tokens) < MaxTokens
                                         THEN tokens \cup {tok} ELSE tokens
    /\ UNCHANGED <<users, posts, uploads, now, nextUserId, nextPostId, inflight>>

\* ------------------------------------------------------------ Post Service
\* The Authorization headers a client may send: none, a scheme without a
\* token, a token Login issued, or such a token with its payload altered
\* (another user's id, a later expiry) under the old signature.
Tampered(T) ==
    {[t EXCEPT !.userId = IdStr(u.id)] : t \in T, u \in users}
      \cup {[t EXCEPT !.exp = t.exp + TokenTTL] : t \in T}
ValidHeaders == {<<"Bearer", t>> : t \in tokens}
HeadersOf(username) == {<<"Bearer", t>> : t \in {x \in tokens : x.username = username}}
Headers ==
    {<<>>, <<"Bearer">>} \cup ValidHeaders
      \cup {<<"Bearer", t>> : t \in Tampered(tokens) \ tokens}

\* multer's filename: Date.now() + path.extname(file.originalname)
FileName(t, ext) == <<t, ext>>
ImagePath(filename) == <<"/uploads/">> \o filename
Upload(U, t, file) == IF file = NoFile THEN U ELSE U \cup {FileName(t, file)}

\* a JavaScript falsy string value: "" or undefined
Falsy(x) == x = "" \/ x = Undefined

\* new Post({...}) of the create handler
\* (variant: authorName taken from the wrong field)
NewPostTitleAsName(id, title, content, file, t, user) ==
    [id |-> id, title |-> title, content |-> content,
     image |-> IF file = NoFile THEN NoImage ELSE ImagePath(FileName(t, file)),
     author |-> ParseId(user.userId), authorName |-> title]
NewPost(id, title, content, file, t, user) ==
    [id |-> id, title |-> title, content |-> content,
     image |-> IF file = NoFile THEN NoImage ELSE ImagePath(FileName(t, file)),
     author |-> ParseId(user.userId), authorName |-> user.username]

\* the schema's required validators of title and content
Valid(doc) == ~Falsy(doc.title) /\ ~Falsy(doc.content)

\* post.author.toString() !== req.user.userId
\* (variant: no ownership check)
AnyoneIsAuthor(post, user) == TRUE
IsAuthor(post, user) == IdStr(post.author) = user.userId

\* the three assignments of the update handler
ApplyUpdate(post, title, content, file, t) ==
    [post EXCEPT !.title = IF Falsy(title) THEN @ ELSE title,
                 !.content = IF Falsy(content) THEN @ ELSE content,
                 !.image = IF file # NoFile THEN ImagePath(FileName(t, file)) ELSE @]

\* post.save() of a document that was read from the store: an update, by
\* _id, that sets the paths whose value differs from the one read; it
\* matches nothing when the document is gone.
\* (variant: an upsert, which inserts the document when it is gone)
SavePostUpsert(P, snap, doc) ==
    IF \E p \in P : p.id = doc.id
    THEN {IF p.id = doc.id
          THEN [p EXCEPT !.title = IF doc.title # snap.title THEN doc.title ELSE @,
                         !.content = IF doc.content # snap.content THEN doc.content ELSE @,
                         !.image = IF doc.image # snap.image THEN doc.image ELSE @]
          ELSE p : p \in P}
    ELSE P \cup {doc}
SavePost(P, snap, doc) ==
    {IF p.id = doc.id
     THEN [p EXCEPT !.title = IF doc.title # snap.title THEN doc.title ELSE @,
                    !.content = IF doc.content # snap.content THEN doc.content ELSE @,
                    !.image = IF doc.image # snap.image THEN doc.image ELSE @]
     ELSE p : p \in P}

\* What save() answers when its update matched no document: Mongoose
\* releases differ (DocumentNotFoundError, caught and answered 500, or a
\* resolved promise and 200); the repository pins none.
SaveMissingOutcomes == {500, 200}

\* Post.findByIdAndDelete(id)
RemovePost(P, id) == {p \in P : p.id # id}

\* ids, newest first (sort({ createdAt: -1 }); ids are assigned in creation order)
RECURSIVE SortDesc(_)
SortDesc(S) ==
    IF S = {} THEN <<>>
    ELSE LET m == CHOOSE x \in S : \A y \in S : y <= x
         IN <<m>> \o SortDesc(S \ {m})

ServerError(r) == Reply(r, 500, "Server error")

\* GET /api/posts
ListAll ==
    /\ resp' = [Reply([BaseReq EXCEPT !.op = "ListAll"], 200, "")
                  EXCEPT !.list = SortDesc(PostIds)]
    /\ UNCHANGED <<users, posts, uploads, tokens, now, nextUserId, nextPostId, inflight>>

\* GET /api/my-posts
ListMine(H) ==
    /\ \E hdr \in H :
         LET r == [BaseReq EXCEPT !.op = "ListMine", !.hdr = hdr]
             a == Authenticate(hdr, now)
         IN IF a.status # 0
            THEN resp' = Reply(r, a.status, AuthMessage(a.status))
            ELSE resp' = [Reply(r, 200, "") EXCEPT
                            !.user = a.user,
                            !.list = SortDesc({p.id : p \in
                                       {q \in posts : q.author = ParseId(a.user.userId)}})]
    /\ UNCHANGED <<users, posts, uploads, tokens, now, nextUserId, nextPostId, inflight>>

\* GET /api/posts/:id
GetOne ==
    /\ \E pid \in 1..MaxPosts :
         LET r == [BaseReq EXCEPT !.op = "GetOne", !.pid = pid]
         IN IF pid \notin PostIds
            THEN resp' = Reply(r, 404, "Post not found")
            ELSE resp' = [Reply(r, 200, "") EXCEPT !.doc = PostById(pid)]
    /\ UNCHANGED <<users, posts, uploads, tokens, now, nextUserId, nextPostId, inflight>>

\* POST /api/posts: authenticateToken, upload.single("image"), the handler.
Create(N, H, T, C, F) ==
    /\ nextPostId <= N
    /\ \E hdr \in H, title \in T, content \in C, file \in F :
         LET r == [BaseReq EXCEPT !.op = "Create", !.hdr = hdr]
             a == Authenticate(hdr, now)
         IN IF a.status # 0
            THEN /\ resp' = Reply(r, a.status, AuthMessage(a.status))
                 /\ UNCHANGED <<posts, uploads, nextPostId>>
            ELSE LET post == NewPost(nextPostId, title, content, file, now, a.user)
                     ru == [r EXCEPT !.user = a.user, !.file = file]
                 IN /\ uploads' = Upload(uploads, now, file)
                    /\ IF Valid(post)
                       THEN /\ posts' = posts \cup {post}
                            /\ nextPostId' = nextPostId + 1
                            /\ resp' = [Reply(ru, 201, "") EXCEPT
                                          !.pid = post.id, !.doc = post]
                       ELSE /\ resp' = ServerError(ru)
                            /\ UNCHANGED <<posts, nextPostId>>
    /\ UNCHANGED <<users, tokens, now, nextUserId, inflight>>

\* PUT /api/posts/:id up to `await post.save()`: authenticateToken, the
\* upload, findById, the ownership check and the assignments.
UpdateFind(s, H, T, C, F) ==
    /\ inflight[s] = Idle
    /\ \E hdr \in H, pid \in 1..MaxPosts, title \in T, content \in C, file \in F :
         LET r == [BaseReq EXCEPT !.op = "Update", !.hdr = hdr, !.pid = pid]
             a == Authenticate(hdr, now)
         IN IF a.status # 0
            THEN /\ resp' = Reply(r, a.status, AuthMessage(a.status))
                 /\ UNCHANGED <<uploads, inflight>>
            ELSE LET ru == [r EXCEPT !.user = a.user, !.file = file]
                 IN /\ uploads' = Upload(uploads, now, file)
                    /\ IF pid \notin PostIds
                       THEN /\ resp' = Reply(ru, 404, "Post not found")
                            /\ UNCHANGED inflight
                       ELSE IF ~IsAuthor(PostById(pid), a.user)
                       THEN /\ resp' = Reply(ru, 403, "Not authorized")
                            /\ UNCHANGED inflight
                       ELSE /\ inflight' = [inflight EXCEPT ![s] =
                                  [ru EXCEPT !.title = title, !.content = content,
                                             !.snap = PostById(pid),
                                             !.doc = ApplyUpdate(PostById(pid), title,
                                                                 content, file, now)]]
                            /\ resp' = Idle
    /\ UNCHANGED <<users, posts, tokens, now, nextUserId, nextPostId>>

\* PUT /api/posts/:id from `await post.save()` on.
UpdateSave(s) ==
    /\ inflight[s].op = "Update"
    /\ LET r == inflight[s]
       IN /\ posts' = SavePost(posts, r.snap, r.doc)
          /\ IF r.pid \in PostIds
             THEN resp' = Reply(r, 200, "")
             ELSE \E st \in SaveMissingOutcomes :
                    resp' = IF st = 200 THEN Reply(r, 200, "") ELSE ServerError(r)
    /\ inflight' = [inflight EXCEPT ![s] = Idle]
    /\ UNCHANGED <<users, uploads, tokens, now, nextUserId, nextPostId>>

\* DELETE /api/posts/:id up to `await Post.findByIdAndDelete`.
DeleteFind(s, H) ==
    /\ inflight[s] = Idle
    /\ \E hdr \in H, pid \in 1..MaxPosts :
         LET r == [BaseReq EXCEPT !.op = "Delete", !.hdr = hdr, !.pid = pid]
             a == Authenticate(hdr, now)
         IN IF a.status # 0
            THEN /\ resp' = Reply(r, a.status, AuthMessage(a.status))
                 /\ UNCHANGED inflight
            ELSE LET ru == [r EXCEPT !.user = a.user]
                 IN IF pid \notin PostIds
                    THEN /\ resp' = Reply(ru, 404, "Post not found")
                         /\ UNCHANGED inflight
                    ELSE IF ~IsAuthor(PostById(pid), a.user)
                    THEN /\ resp' = Reply(ru, 403, "Not authorized")
                         /\ UNCHANGED inflight
                    ELSE /\ inflight' = [inflight EXCEPT ![s] = ru]
                         /\ resp' = Idle
    /\ UNCHANGED <<users, posts, uploads, tokens, now, nextUserId, nextPostId>>

\* DELETE /api/posts/:id from `await Post.findByIdAndDelete` on: its
\* result is not looked at.
DeleteSave(s) ==
    /\ inflight[s].op = "Delete"
    /\ posts' = RemovePost(posts, inflight[s].pid)
    /\ resp' = Reply(inflight[s], 200, "Post deleted successfully")
    /\ inflight' = [inflight EXCEPT ![s] = Idle]
    /\ UNCHANGED <<users, uploads, tokens, now, nextUserId, nextPostId>>

\* ------------------------------------------------------------ specifications
\* Every handler with every input, from the empty store.
Next ==
    \/ Tick
    \/ \E s \in Slots : RegisterFind(s, RegisterPasswords)
    \/ \E s \in Slots : RegisterSave(s)
    \/ Login(LoginPasswords)
    \/ ListAll
    \/ ListMine(Headers)
    \/ GetOne
    \/ Create(MaxPosts, Headers, CreateTitles, CreateContents, FileInputs)
    \/ \E s \in Slots : UpdateFind(s, Headers, UpdateTitles, UpdateContents, FileInputs)
    \/ \E s \in Slots : UpdateSave(s)
    \/ \E s \in Slots : DeleteFind(s, Headers)
    \/ \E s \in Slots : DeleteSave(s)

Spec == Init /\ [][Next]_vars

\* The user service alone, from the empty store.
NextUsers ==
    \/ Tick
    \/ \E s \in Slots : RegisterFind(s, RegisterPasswords)
    \/ \E s \in Slots : RegisterSave(s)
    \/ Login(LoginPasswords)

SpecUsers == Init /\ [][NextUsers]_vars

\* The store after alice and bob registered and logged in at clock 0, bob
\* last (a state SpecUsers reaches).
Alice == [id |-> 1, username |-> "alice", email |-> "a@x.com", password |-> Hash("pw1")]
Bob   == [id |-> 2, username |-> "bob", email |-> "b@x.com", password |-> Hash("pw1")]

InitPosts ==
    /\ users = {Alice, Bob}
    /\ posts = {}
    /\ uploads = {}
    /\ tokens = {SignedToken(Alice, 0), SignedToken(Bob, 0)}
    /\ now = 0
    /\ nextUserId = 3
    /\ nextPostId = 1
    /\ inflight = [s \in Slots |-> Idle]
    /\ resp = [Reply([BaseReq EXCEPT !.op = "Login", !.email = Bob.email,
                                     !.password = "pw1"], 200, "")
                EXCEPT !.user = [userId |-> IdStr(Bob.id), username |-> Bob.username]]

\* The protected routes under every kind of Authorization header, as the
\* clock passes the tokens' expiry; one request at a time.
NextAuth ==
    \/ Tick
    \/ ListMine(Headers)
    \/ Create(MaxPosts, Headers, {"t1"}, {"c1"}, {NoFile})
    \/ UpdateFind("r1", Headers, {"t2"}, {Undefined}, {NoFile})
    \/ UpdateSave("r1")
    \/ DeleteFind("r1", Headers)
    \/ DeleteSave("r1")

SpecAuth == InitPosts /\ [][NextAuth]_vars

\* The post routes called by alice and bob with their tokens, requests
\* overlapping, at one clock reading.
NextLife ==
    \/ ListAll
    \/ ListMine(ValidHeaders)
    \/ GetOne
    \/ Create(MaxPosts, ValidHeaders, {"t1"}, {"c1"}, {NoFile})
    \/ \E s \in Slots : UpdateFind(s, ValidHeaders, {"t2"}, {Undefined}, {NoFile})
    \/ \E s \in Slots : UpdateSave(s)
    \/ \E s \in Slots : DeleteFind(s, ValidHeaders)
    \/ \E s \in Slots : DeleteSave(s)

SpecLife == InitPosts /\ [][NextLife]_vars

\* Alice's creates and overlapping updates of one post, with and without a
\* title and an upload, as the clock advances.
NextFrame ==
    \/ Tick
    \/ Create(MaxFramePosts, HeadersOf("alice"), {"t1"}, {"c1"}, FileInputs)
    \/ \E s \in Slots : UpdateFind(s, HeadersOf("alice"), {"t2", ""}, {Undefined}, FileInputs)
    \/ \E s \in Slots : UpdateSave(s)

SpecFrame == InitPosts /\ [][NextFrame]_vars

\* Registration (requests overlapping), login and the writing routes
\* called with the tokens Login issued, from the empty store, at one clock
\* reading.
NextSession ==
    \/ \E s \in Slots : RegisterFind(s, {"pw1"})
    \/ \E s \in Slots : RegisterSave(s)
    \/ Login({"pw1"})
    \/ Create(MaxPosts, ValidHeaders, {"t1"}, {"c1"}, {NoFile})
    \/ UpdateFind("r1", ValidHeaders, {"t2"}, {Undefined}, {NoFile})
    \/ UpdateSave("r1")
    \/ DeleteFind("r1", ValidHeaders)
    \/ DeleteSave("r1")

SpecSession == Init /\ [][NextSession]_vars

\* Two creates and an update, each with or without an upload, as the clock
\* advances.
NextUpload ==
    \/ Tick
    \/ Create(MaxPosts, HeadersOf("alice"), {"t1"}, {"c1"}, FileInputs)
    \/ UpdateFind("r1", HeadersOf("alice"), {""}, {Undefined}, FileInputs)
    \/ UpdateSave("r1")

SpecUpload == InitPosts /\ [][NextUpload]_vars

\* ------------------------------------------------------------------ claims
\* slot s answered its request in this step
Finished(s) == inflight[s] # Idle /\ inflight'[s] = Idle
\* this step answered a request it also received (no slot finished)
Received == resp'.op # "" /\ \A s \in Slots : ~Finished(s)
Protected == {"ListMine", "Create", "Update", "Delete"}
IdentityOf(u) == [userId |-> IdStr(u.id), username |-> u.username]
IssuedTo(tok, u) == \E t0 \in 0..MaxClock : tok = SignedToken(u, t0)

\* C1: an Update or Delete of a stored post by an authenticated user other
\* than its author is answered 403 and leaves the posts as they are, and a
\* post is changed or removed only by a request of its author.
C1_OnlyAuthorMutates ==
    [][/\ \A p \in posts : p \notin posts' =>
            \E s \in Slots : /\ Finished(s)
                             /\ inflight[s].op \in {"Update", "Delete"}
                             /\ inflight[s].pid = p.id
                             /\ inflight[s].user.userId = IdStr(p.author)
       /\ ( /\ resp'.op \in {"Update", "Delete"}
            /\ resp'.user # NoUser
            /\ resp'.pid \in PostIds
            /\ resp'.user.userId # IdStr(PostById(resp'.pid).author) )
          => (resp'.status = 403 /\ posts' = posts)
      ]_vars

\* C1 witness: a user who is not the author of a stored post was refused.
C1_Witness ==
    /\ resp.op \in {"Update", "Delete"}
    /\ resp.status = 403
    /\ resp.msg = "Not authorized"
    /\ resp.pid \in PostIds
    /\ resp.user.userId # IdStr(PostById(resp.pid).author)

\* C2: a protected route answers 401 without a token and 403 to a token
\* that Login did not issue or that has expired, changing no post; with a
\* token Login issued to user U and not yet expired the handler runs with
\* U's userId and username.
C2_AuthGuard ==
    [][/\ (Received /\ resp'.op \in Protected) =>
            LET h == resp'.hdr
            IN /\ Len(h) < 2 => (resp'.status = 401 /\ posts' = posts)
               /\ (Len(h) >= 2 /\ (h[2] \notin tokens \/ now >= h[2].exp))
                    => /\ resp'.status = 403
                       /\ resp'.msg = "Invalid token"
                       /\ posts' = posts
               /\ (Len(h) >= 2 /\ h[2] \in tokens /\ now < h[2].exp)
                    => /\ resp'.msg \notin {"Access token required", "Invalid token"}
                       /\ \E u \in users : /\ IssuedTo(h[2], u)
                                           /\ resp'.user = IdentityOf(u)
       /\ \A s \in Slots :
            (inflight'[s] # inflight[s] /\ inflight'[s] # Idle) =>
               LET h == inflight'[s].hdr
               IN /\ Len(h) >= 2 /\ h[2] \in tokens /\ now < h[2].exp
                  /\ \E u \in users : /\ IssuedTo(h[2], u)
                                      /\ inflight'[s].user = IdentityOf(u)
      ]_vars

\* C2 witness: a token that Login issued was refused once it had expired.
C2_Witness ==
    /\ resp.op \in Protected
    /\ resp.status = 403
    /\ resp.msg = "Invalid token"
    /\ Len(resp.hdr) >= 2
    /\ resp.hdr[2] \in tokens

\* C3: a Register request (with a password) whose email or username is
\* taken by a stored user when it is answered gets 400 "User already
\* exists" and adds no user, also when two registrations overlap; one whose
\* email and username are both free gets 201.
C3_RegisterConflict ==
    [][(resp'.op = "Register" /\ IsString(resp'.password)) =>
          IF ExistingUser(users, resp'.username, resp'.email)
          THEN /\ resp'.status = 400
               /\ resp'.msg = "User already exists"
               /\ users' = users
          ELSE resp'.status = 201
      ]_vars

UsersUnique ==
    \A u, v \in users : (u.username = v.username \/ u.email = v.email) => u = v

\* C4: no two stored users share a username or an email, and a stored user
\* is never modified or removed.
C4_UsersUniqueAndKept ==
    /\ []UsersUnique
    /\ [][users \subseteq users']_vars

\* C4 witness: two users are stored and a registration that raced with one
\* of them was refused by the store.
C4_Witness ==
    /\ Cardinality(users) = 2
    /\ resp.op = "Register"
    /\ resp.status = 500
    /\ IsString(resp.password)

\* C5: a Login whose email belongs to no user, and a Login whose email
\* belongs to a user but whose password does not verify, get the same
\* answer: 400 "Invalid credentials".
C5_LoginIndistinguishable ==
    [][resp'.op = "Login" =>
          LET found == {u \in users : u.email = resp'.email}
          IN (found = {} \/ \A u \in found :
                              ~(IsString(resp'.password) /\ Compare(resp'.password, u.password)))
               => (resp'.status = 400 /\ resp'.msg = "Invalid credentials")
      ]_vars

\* C6: a successful Update keeps the stored title, content and image when
\* the request carries none, stores the new image path when a file is
\* uploaded, and changes neither author, authorName nor another post.
C6_UpdateFrame ==
    [][\A s \in Slots :
          ( /\ Finished(s)
            /\ inflight[s].op = "Update"
            /\ resp'.status = 200
            /\ inflight[s].pid \in PostIds ) =>
             LET r == inflight[s]
                 old == PostById(r.pid)
                 new == CHOOSE q \in posts' : q.id = r.pid
             IN /\ \E q \in posts' : q.id = r.pid
                /\ Falsy(r.title) => new.title = old.title
                /\ Falsy(r.content) => new.content = old.content
                /\ r.file = NoFile => new.image = old.image
                /\ r.file # NoFile => new.image = r.doc.image
                /\ new.author = old.author
                /\ new.authorName = old.authorName
                /\ \A p \in posts : p.id # r.pid => p \in posts'
      ]_vars

PostsHaveAuthors ==
    \A p \in posts : \E u \in users : u.id = p.author /\ u.username = p.authorName

\* C7: every stored post's author is the id of a stored user and its
\* authorName that user's username; both come from the identity of the
\* Create request and do not change afterwards.
C7_AuthorFromIdentity ==
    /\ []PostsHaveAuthors
    /\ [][/\ (resp'.op = "Create" /\ resp'.status = 201) =>
               /\ resp'.doc \in posts'
               /\ IdStr(resp'.doc.author) = resp'.user.userId
               /\ resp'.doc.authorName = resp'.user.username
          /\ \A p \in posts, q \in posts' :
               p.id = q.id => (q.author = p.author /\ q.authorName = p.authorName)
         ]_vars

\* C7 witness: a post created by bob is stored after an update of it.
C7_Witness ==
    /\ resp.op = "Update"
    /\ resp.status = 200
    /\ \E p \in posts : p.id = resp.pid /\ p.authorName = "bob" /\ p.title = "t2"

\* C8: once Delete answered 200 the post is absent and stays absent: only
\* Create makes a post present, and then under a fresh id; GetOne of an
\* absent post answers 404 and the lists hold stored posts only; only a
\* Delete answered 200 removes a post.
C8_DeletedStaysAbsent ==
    [][/\ (resp'.op = "Delete" /\ resp'.status = 200) => resp'.pid \notin PostIds'
       /\ \A id \in PostIds' \ PostIds :
            resp'.op = "Create" /\ resp'.status = 201 /\ id = nextPostId
       /\ \A id \in PostIds \ PostIds' :
            resp'.op = "Delete" /\ resp'.status = 200 /\ resp'.pid = id
       /\ (resp'.op = "GetOne" /\ resp'.pid \notin PostIds) => resp'.status = 404
       /\ resp'.op \in {"ListAll", "ListMine"} =>
            \A i \in 1..Len(resp'.list) : resp'.list[i] \in PostIds
      ]_vars

\* C8 witness: an Update that overlapped the Delete of its post has been
\* answered, and the post is absent.
C8_Witness ==
    /\ resp.op = "Update"
    /\ resp.pid < nextPostId
    /\ resp.pid \notin PostIds
    /\ resp.snap # NoDoc

\* C9: of an Update and a Delete, or two Deletes, of one post that overlap,
\* the request that writes after the post was removed is answered 404.
C9_LosingWriterNotFound ==
    [][\A s \in Slots :
          ( /\ Finished(s)
            /\ inflight[s].op \in {"Update", "Delete"}
            /\ inflight[s].pid \notin PostIds ) => resp'.status = 404
      ]_vars

\* C10: the image paths recorded for two posts are distinct (each upload
\* has a name of its own), and a post created without an upload has none.
C10_DistinctImagePaths ==
    /\ \A p, q \in posts : (p.id # q.id /\ p.image # NoImage) => p.image # q.image
    /\ (resp.op = "Create" /\ resp.status = 201 /\ resp.file = NoFile)
         => resp.doc.image = NoImage
====
